---- MODULE Spec2Model ----
(***************************************************************************)
(* TasksQueue (src/lib/classes/tasks/TasksQueue.js): the in-memory queue   *)
(* of deferred tasks, its single wake-up timer and the batched completion  *)
(* write.  Every `await` of the source is a point where the other          *)
(* handlers of the event loop may run, so each asynchronous function is    *)
(* cut into one action per stretch of code between two awaits.             *)
(***************************************************************************)
EXTENDS Integers, Sequences, FiniteSets, TLC

(* ------------------------------ bounds --------------------------------- *)
NumRecords == 2      \* rows of the tasks table
MaxTasks == 2        \* Task objects handed to pushTask
MaxRejected == 1     \* pushTask calls with a value that is not a Task
MaxWakeups == 2      \* timer fires (executions of #runTasks)
MaxDue == 2          \* near due times are 1..MaxDue

(* ------------------------- program constants --------------------------- *)
MAX_TIMER_TIME == 864000000

(* ------------------------------- values -------------------------------- *)
\* A task object: its identity, task.time and task.id (0: no persisted id).
\* obj = 0 is `undefined` (a hole left by `delete`, or a missing argument);
\* obj < 0 is a value that is not a BaseTask (a number, a plain object).
Undefined == [obj |-> 0, time |-> 0, id |-> 0]
NotATask == [obj |-> -1, time |-> 0, id |-> 0]

RecordIds == 1..NumRecords
Objects == 1..(NumRecords + MaxTasks)
NearDue == IF MaxDue > NumRecords THEN MaxDue ELSE NumRecords
DueTimes == 1..MaxDue
TimePoints == 0..(NearDue + 1)
KnownTypes == {"reminder"}
RecordTypes == KnownTypes \cup {"unknown_type"}

Min(a, b) == IF a < b THEN a ELSE b
Max(a, b) == IF a > b THEN a ELSE b

VARIABLES
    now,            \* new Date().getTime()
    records,        \* the tasks table: id -> [time, type]
    marked,         \* ids of the rows whose `completed` column is 1
    initPc,         \* position of initialize(): "new", "loading", "done", "failed"
    tasksList,      \* #tasksList
    timers,         \* the timeouts pending in the event loop
    currentTimer,   \* #currentTimer (0: undefined)
    currentTimerTimestamp, \* #currentTimerTimestamp (0: undefined)
    handlers,       \* #handleNewTask calls suspended at `await task.initialize()`
    wakeups,        \* the timer callbacks started so far, each with its #runTasks frame
    initCount,      \* per task object, the calls of its initialize() hook
    nTasks,         \* Task objects created by the callers of pushTask
    rejected,       \* pushTask calls that were given a value that is not a Task
    errors,         \* where a rejection or exception escaped to
    inserted,       \* the task objects pushed into #tasksList, in the order of the pushes
    unwritten       \* ids of rows whose task an earlier process ran without the update landing

vars == <<now, records, marked, initPc, tasksList, timers, currentTimer,
          currentTimerTimestamp, handlers, wakeups, initCount, nTasks,
          rejected, errors, inserted, unwritten>>

(* ------------------------------ helpers -------------------------------- *)
\* `x instanceof BaseTask`
IsBaseTask(x) == x.obj > 0

\* TaskLoader.resolveTask(record): the task of a row, or UnknownVariantError.
ResolveThrows(r) == records[r].type \notin KnownTypes
ResolveTask(r) == [obj |-> r, time |-> records[r].time, id |-> r]

\* TaskModel.findAll({where: {completed: 0}})
FindAllIncomplete == {r \in RecordIds : r \notin marked}

Perms(S) == {s \in [1..Cardinality(S) -> S] : \A i, j \in 1..Cardinality(S) : s[i] = s[j] => i = j}


(* --------------------------- #updateTimer ------------------------------ *)
\* `task?.time ?? -1`
ForcedTime(task) == IF task.obj = 0 THEN -1 ELSE task.time

\* The forEach of lines 63-69 (forEach does not visit the holes `delete` leaves).
RECURSIVE ScanMin(_, _)
ScanMin(list, acc) ==
    IF list = <<>> THEN acc
    ELSE LET task == Head(list) IN
         IF task.obj = 0 THEN ScanMin(Tail(list), acc)
         ELSE IF acc < 0 THEN ScanMin(Tail(list), task.time)
         ELSE ScanMin(Tail(list), Min(acc, task.time))

\* nextTimerTime at line 71: the forced task's time, else the scan's minimum.
NextTimerTime(task, list) ==
    IF ForcedTime(task) < 0 THEN ScanMin(list, ForcedTime(task)) ELSE ForcedTime(task)

\* Lines 73-75: the delay of the timeout.
TimerDelay(next, n) ==
    LET d == Max(n, next) - n IN
    IF d >= MAX_TIMER_TIME THEN MAX_TIMER_TIME ELSE d

\* timers.clearTimeout that cancels nothing.
ClearNothing(ts, handle) == ts

\* clearTimeout(handle): the timeout with this handle leaves the event loop.
ClearTimeout(ts, handle) == {t \in ts : t.h # handle}

\* setTimeout: a handle no pending timeout has and #currentTimer does not hold.
NewHandle(ts, cur) == CHOOSE h \in 1..(Cardinality(ts) + 2) : h # cur /\ \A t \in ts : t.h # h

\* #updateTimer(task): the timers and #currentTimer it leaves. A pending
\* timeout is its handle, the time it is due to fire at, and the task time it
\* was armed for.
UpdateTimer(task, list, ts, cur) ==
    LET cleared == ClearTimeout(ts, cur)
        next == NextTimerTime(task, list)
        h == NewHandle(cleared, cur)
    IN  IF next < 0
        THEN [timers |-> cleared, currentTimer |-> cur]
        ELSE [timers |-> cleared \cup {[h |-> h, fireAt |-> now + TimerDelay(next, now),
                                        target |-> next]},
              currentTimer |-> h]

(* ------------------------------- Init ---------------------------------- *)
Init ==
    /\ now = 0
    /\ records \in {f \in [RecordIds -> [time : 1..NearDue, type : RecordTypes]] :
                      \A r \in RecordIds : f[r].time = r}
    /\ marked = {}
    /\ initPc = "new"
    /\ tasksList = <<>>
    /\ timers = {}
    /\ currentTimer = 0
    /\ currentTimerTimestamp = 0
    /\ handlers = {}
    /\ wakeups = <<>>
    /\ initCount = [o \in Objects |-> 0]
    /\ nTasks = 0
    /\ rejected = 0
    /\ errors = {}
    /\ inserted = <<>>
    /\ unwritten = {}

(* ----------------------------- the clock ------------------------------- *)
Tick ==
    /\ \E t \in TimePoints : t > now /\ now' = t
    /\ UNCHANGED <<records, marked, initPc, tasksList, timers, currentTimer,
                   currentTimerTimestamp, handlers, wakeups, initCount, nTasks,
                   rejected, errors, inserted,
                   unwritten>>

(* ---------------------------- initialize() ----------------------------- *)
\* Lines 32-33: subscribe, then wait for the rows of findAll.
InitializeCall ==
    /\ initPc = "new"
    /\ initPc' = "loading"
    /\ UNCHANGED <<now, records, marked, tasksList, timers, currentTimer,
                   currentTimerTimestamp, handlers, wakeups, initCount, nTasks,
                   rejected, errors, inserted,
                   unwritten>>

\* The rows of `order` before the first one resolveTask throws on.
RECURSIVE LoadedPrefix(_)
LoadedPrefix(order) ==
    IF order = <<>> \/ ResolveThrows(Head(order)) THEN <<>>
    ELSE <<ResolveTask(Head(order))>> \o LoadedPrefix(Tail(order))

\* Lines 135-139 and 34: push the task of every row, in the order the store
\* returned them, then #updateTimer(). An exception of resolveTask leaves the
\* forEach and rejects initialize().
InitializeLoaded ==
    /\ initPc = "loading"
    /\ \E order \in Perms(FindAllIncomplete) :
         LET loaded == LoadedPrefix(order)
             list == tasksList \o loaded
             r == UpdateTimer(Undefined, list, timers, currentTimer)
         IN  /\ tasksList' = list
             /\ IF Len(loaded) < Len(order)
                THEN /\ initPc' = "failed"
                     /\ errors' = errors \cup {"initialize"}
                     /\ UNCHANGED <<timers, currentTimer>>
                ELSE /\ initPc' = "done"
                     /\ timers' = r.timers
                     /\ currentTimer' = r.currentTimer
                     /\ UNCHANGED errors
             /\ inserted' = inserted \o [j \in 1..Len(loaded) |-> loaded[j].obj]
    /\ UNCHANGED <<now, records, marked, currentTimerTimestamp, handlers,
                   wakeups, initCount, nTasks, rejected, unwritten>>

(* ------------------------ pushTask, #handleNewTask --------------------- *)
\* Line 77: #runTasks has returned and the rest of the timer callback (line
\* 78) is queued as a microtask. The event loop runs it before any timer
\* fires, any I/O completes or any caller's event is handled.
MicrotaskQueued == \E k \in 1..Len(wakeups) : wakeups[k].pc = "rearm"

\* pushTask without its guard: every value reaches the listener.
PushTaskAcceptsAnything(task) == TRUE

\* Line 147: the guard of pushTask.
PushTaskAccepts(task) == IsBaseTask(task)

\* The values the callers pass: a new Task object, not persisted (it has no
\* id), or a value that is not a Task.
NewTask(time) == [obj |-> NumRecords + nTasks + 1, time |-> time, id |-> 0]

\* pushTask(task) up to the first await of the listener: the emitter calls the
\* listener at once, which calls task.initialize() and waits for it. A value
\* without an initialize method makes the listener's promise reject.
\* initialize() has settled before the callers enqueue.
PushTask(task) ==
    /\ initPc \in {"done", "failed"}
    /\ ~MicrotaskQueued
    /\ IF IsBaseTask(task)
       THEN nTasks < MaxTasks /\ nTasks' = nTasks + 1 /\ UNCHANGED rejected
       ELSE rejected < MaxRejected /\ rejected' = rejected + 1 /\ UNCHANGED nTasks
    /\ IF ~PushTaskAccepts(task)
       THEN UNCHANGED <<handlers, initCount, errors>>
       ELSE IF IsBaseTask(task)
       THEN /\ initCount' = [initCount EXCEPT ![task.obj] = @ + 1]
            /\ handlers' = handlers \cup {task}
            /\ UNCHANGED errors
       ELSE /\ errors' = errors \cup {"listener"}
            /\ UNCHANGED <<handlers, initCount>>
    /\ UNCHANGED <<now, records, marked, initPc, tasksList, timers, currentTimer,
                   currentTimerTimestamp, wakeups, inserted,
                   unwritten>>

\* Line 50: the condition under which #handleNewTask re-arms the timer.
\* #currentTimerTimestamp = 0 stands for undefined: `x < undefined` is false
\* and `!undefined` is true.
ShouldUpdateTimer(task) ==
    \/ (currentTimerTimestamp # 0 /\ task.time < currentTimerTimestamp)
    \/ currentTimerTimestamp = 0

\* unshift in the place of push: the new task goes to the front.
UnshiftTask(list, task) == <<task>> \o list

\* Lines 49 and 136: this.#tasksList.push(task).
PushToList(list, task) == Append(list, task)

\* Lines 49-51: task.initialize() has resolved.
HandleNewTask(task) ==
    /\ task \in handlers
    /\ handlers' = handlers \ {task}
    /\ tasksList' = PushToList(tasksList, task)
    /\ inserted' = Append(inserted, task.obj)
    /\ LET r == UpdateTimer(task, tasksList', timers, currentTimer) IN
       IF ShouldUpdateTimer(task)
       THEN timers' = r.timers /\ currentTimer' = r.currentTimer
       ELSE UNCHANGED <<timers, currentTimer>>
    /\ UNCHANGED <<now, records, marked, initPc, currentTimerTimestamp, wakeups,
                   initCount, nTasks, rejected, errors, unwritten>>

\* Line 48: task.initialize() has rejected; the listener's promise rejects.
HandleNewTaskFails(task) ==
    /\ task \in handlers
    /\ handlers' = handlers \ {task}
    /\ errors' = errors \cup {"listener"}
    /\ UNCHANGED <<now, records, marked, initPc, tasksList, timers, currentTimer,
                   currentTimerTimestamp, wakeups, initCount, nTasks, rejected,
                   inserted,
                   unwritten>>

(* ------------------- the timer callback, #runTasks --------------------- *)
\* A started timer callback: the `now` its #runTasks captured, the loop index
\* i (1-based), the `task` the loop holds, completedTasks, and where it is
\* suspended: "beforeRun", "run", "afterRun" (line 99, 100, 101), "update"
\* (line 112), "rearm" (line 77, #runTasks has returned), "done" (the callback
\* has ended), or "hookFailed" / "updateFailed" (the awaited call rejected and
\* the callback's promise rejected with it: the callback is over). due, log
\* and writes record the due tasks #tasksList held when it started, the hooks
\* it has called and the completion updates it has issued. A callback that
\* has ended leaves nothing behind but the fact that it ran.
Running == {"beforeRun", "run", "afterRun", "update", "rearm"}
Ended == [now |-> 0, i |-> 0, pc |-> "done", task |-> Undefined,
          completed |-> <<>>, due |-> {}, log |-> <<>>, writes |-> <<>>]

\* Line 98: the task is due.
IsDue(task, n) == task.time < n

\* Lines 93-98: the first index from `from` on whose element is a due task,
\* or 0 when the loop ends without one.
NextDueIndex(list, from, n) ==
    LET due == {j \in from..Len(list) : IsBaseTask(list[j]) /\ IsDue(list[j], n)} IN
    IF due = {} THEN 0 ELSE CHOOSE j \in due : \A k \in due : j <= k

\* Line 105: `delete this.#tasksList[i]` leaves a hole; beyond the end it does nothing.
DeleteAt(list, i) ==
    IF i \in 1..Len(list) THEN [list EXCEPT ![i] = Undefined] ELSE list

\* Line 109: the filter drops the holes and whatever is not a task.
FilterTasks(list) == SelectSeq(list, IsBaseTask)

\* Line 111: the update is issued when completedTasks is not empty.
NeedsUpdate(completed) == Len(completed) > 0

\* The loop of lines 93-107 from index `from` up to its next await, and
\* lines 109-121 when the loop ends: the frame and the #tasksList it leaves.
Scan(w, list, from) ==
    LET j == NextDueIndex(list, from, w.now) IN
    IF j # 0
    THEN [w |-> [w EXCEPT !.i = j, !.task = list[j], !.pc = "beforeRun",
                          !.log = Append(@, [task |-> list[j], phase |-> "beforeRun"])],
          list |-> list]
    ELSE [w |-> IF NeedsUpdate(w.completed)
                THEN [w EXCEPT !.pc = "update", !.writes = Append(@, w.completed)]
                ELSE [w EXCEPT !.pc = "rearm"],
          list |-> FilterTasks(list)]

\* Lines 76-77 and 87-99: a pending timeout fires, its callback calls #runTasks.
TimerFires(t) ==
    /\ t \in timers
    /\ now >= t.fireAt
    /\ ~MicrotaskQueued
    /\ Len(wakeups) < MaxWakeups
    /\ timers' = timers \ {t}
    /\ LET w0 == [now |-> now, i |-> 0, pc |-> "start", task |-> Undefined,
                  completed |-> <<>>, log |-> <<>>, writes |-> <<>>,
                  due |-> {tasksList[j] : j \in {x \in 1..Len(tasksList) :
                             IsBaseTask(tasksList[x]) /\ IsDue(tasksList[x], now)}}]
           r == Scan(w0, tasksList, 1)
       IN  /\ wakeups' = Append(wakeups, r.w)
           /\ tasksList' = r.list
    /\ UNCHANGED <<now, records, marked, initPc, currentTimer,
                   currentTimerTimestamp, handlers, initCount, nTasks, rejected,
                   errors, inserted,
                   unwritten>>

\* Line 99 resolved: line 100 calls run.
BeforeRunReturns(k) ==
    /\ k \in 1..Len(wakeups)
    /\ wakeups[k].pc = "beforeRun"
    /\ wakeups' = [wakeups EXCEPT ![k].pc = "run",
                     ![k].log = Append(@, [task |-> wakeups[k].task, phase |-> "run"])]
    /\ UNCHANGED <<now, records, marked, initPc, tasksList, timers, currentTimer,
                   currentTimerTimestamp, handlers, initCount, nTasks, rejected,
                   errors, inserted,
                   unwritten>>

\* Line 100 resolved: line 101 calls afterRun.
RunReturns(k) ==
    /\ k \in 1..Len(wakeups)
    /\ wakeups[k].pc = "run"
    /\ wakeups' = [wakeups EXCEPT ![k].pc = "afterRun",
                     ![k].log = Append(@, [task |-> wakeups[k].task, phase |-> "afterRun"])]
    /\ UNCHANGED <<now, records, marked, initPc, tasksList, timers, currentTimer,
                   currentTimerTimestamp, handlers, initCount, nTasks, rejected,
                   errors, inserted,
                   unwritten>>

\* Lines 102-104: the id of the task that has run, when it has one.
PushCompleted(completed, task) ==
    IF task.id # 0 THEN Append(completed, task.id) ELSE completed

\* Line 101 resolved: lines 102-105, then the loop goes on from i + 1.
AfterRunReturns(k) ==
    /\ k \in 1..Len(wakeups)
    /\ wakeups[k].pc = "afterRun"
    /\ LET w == wakeups[k]
           w1 == [w EXCEPT !.completed = PushCompleted(@, w.task)]
           r == Scan(w1, DeleteAt(tasksList, w.i), w.i + 1)
       IN  /\ wakeups' = [wakeups EXCEPT ![k] = r.w]
           /\ tasksList' = r.list
    /\ UNCHANGED <<now, records, marked, initPc, timers, currentTimer,
                   currentTimerTimestamp, handlers, initCount, nTasks, rejected,
                   errors, inserted,
                   unwritten>>

\* Lines 99-101: the awaited hook rejected. Nothing catches it: #runTasks and
\* the timer callback reject, and line 78 is never reached.
PhaseFails(k) ==
    /\ k \in 1..Len(wakeups)
    /\ wakeups[k].pc \in {"beforeRun", "run", "afterRun"}
    /\ wakeups' = [wakeups EXCEPT ![k].pc = "hookFailed"]
    /\ errors' = errors \cup {"timer"}
    /\ UNCHANGED <<now, records, marked, initPc, tasksList, timers, currentTimer,
                   currentTimerTimestamp, handlers, initCount, nTasks, rejected,
                   inserted,
                   unwritten>>

\* Lines 112-120 resolved: the rows are marked, #runTasks returns.
UpdateReturns(k) ==
    /\ k \in 1..Len(wakeups)
    /\ wakeups[k].pc = "update"
    /\ ~MicrotaskQueued
    /\ marked' = marked \cup {wakeups[k].completed[j] : j \in 1..Len(wakeups[k].completed)}
    /\ wakeups' = [wakeups EXCEPT ![k].pc = "rearm"]
    /\ UNCHANGED <<now, records, initPc, tasksList, timers, currentTimer,
                   currentTimerTimestamp, handlers, initCount, nTasks, rejected,
                   errors, inserted,
                   unwritten>>

\* Lines 112-120 rejected: as for a hook, the callback rejects.
UpdateFails(k) ==
    /\ k \in 1..Len(wakeups)
    /\ wakeups[k].pc = "update"
    /\ ~MicrotaskQueued
    /\ wakeups' = [wakeups EXCEPT ![k].pc = "updateFailed"]
    /\ errors' = errors \cup {"timer"}
    /\ UNCHANGED <<now, records, marked, initPc, tasksList, timers, currentTimer,
                   currentTimerTimestamp, handlers, initCount, nTasks, rejected,
                   inserted,
                   unwritten>>

\* Line 78: #runTasks has returned, the callback calls #updateTimer().
Rearm(k) ==
    /\ k \in 1..Len(wakeups)
    /\ wakeups[k].pc = "rearm"
    /\ wakeups' = [wakeups EXCEPT ![k] = Ended]
    /\ LET r == UpdateTimer(Undefined, tasksList, timers, currentTimer) IN
       timers' = r.timers /\ currentTimer' = r.currentTimer
    /\ UNCHANGED <<now, records, marked, initPc, tasksList,
                   currentTimerTimestamp, handlers, initCount, nTasks, rejected,
                   errors, inserted,
                   unwritten>>

(* --------------------------- specification ----------------------------- *)
Next ==
    \/ Tick
    \/ InitializeCall
    \/ InitializeLoaded
    \/ \E time \in DueTimes : PushTask(NewTask(time))
    \/ PushTask(NotATask)
    \/ \E task \in handlers : HandleNewTask(task)
    \/ \E task \in handlers : HandleNewTaskFails(task)
    \/ \E t \in timers : TimerFires(t)
    \/ \E k \in 1..MaxWakeups : BeforeRunReturns(k)
    \/ \E k \in 1..MaxWakeups : RunReturns(k)
    \/ \E k \in 1..MaxWakeups : AfterRunReturns(k)
    \/ \E k \in 1..MaxWakeups : PhaseFails(k)
    \/ \E k \in 1..MaxWakeups : UpdateReturns(k)
    \/ \E k \in 1..MaxWakeups : UpdateFails(k)
    \/ \E k \in 1..MaxWakeups : Rearm(k)

Spec == Init /\ [][Next]_vars

(* ----------------------- restart of the process ------------------------ *)
\* The ids a callback has pushed for its update (lines 102-104), over the
\* callbacks of this process.
Removed == UNION {{wakeups[k].completed[j] : j \in 1..Len(wakeups[k].completed)} :
                  k \in 1..Len(wakeups)}

\* The process stops at any point and is started again: a new TasksQueue is
\* constructed (lines 12-14), timers, callbacks and handlers of the old
\* process are gone, the store keeps what was written to it.
Restart ==
    /\ initPc # "new"
    /\ unwritten' = (unwritten \cup Removed) \ marked
    /\ initPc' = "new"
    /\ tasksList' = <<>>
    /\ timers' = {}
    /\ currentTimer' = 0
    /\ handlers' = {}
    /\ wakeups' = <<>>
    /\ initCount' = [o \in Objects |-> 0]
    /\ nTasks' = 0
    /\ rejected' = 0
    /\ errors' = {}
    /\ inserted' = <<>>
    /\ UNCHANGED <<now, records, marked, currentTimerTimestamp>>

\* The scheduler with the tasks of the store only: nothing is enqueued.
NextLoaded ==
    \/ Tick
    \/ InitializeCall
    \/ InitializeLoaded
    \/ \E t \in timers : TimerFires(t)
    \/ \E k \in 1..MaxWakeups : BeforeRunReturns(k)
    \/ \E k \in 1..MaxWakeups : RunReturns(k)
    \/ \E k \in 1..MaxWakeups : AfterRunReturns(k)
    \/ \E k \in 1..MaxWakeups : PhaseFails(k)
    \/ \E k \in 1..MaxWakeups : UpdateReturns(k)
    \/ \E k \in 1..MaxWakeups : UpdateFails(k)
    \/ \E k \in 1..MaxWakeups : Rearm(k)

NextRestart == NextLoaded \/ Restart

SpecRestart == Init /\ [][NextRestart]_vars

(* ------------------- tasks due beyond MAX_TIMER_TIME ------------------- *)
\* A dueAt more than MAX_TIMER_TIME after every time at which the store can
\* be loaded.
HorizonDue == MAX_TIMER_TIME + NearDue + 2
\* The clock around the first clamped timeout and around HorizonDue.
FarTimePoints == MAX_TIMER_TIME..(HorizonDue + 1)

\* The store holds at least one row due at HorizonDue.
InitFar ==
    /\ now = 0
    /\ records \in {f \in [RecordIds -> [time : (1..NearDue) \cup {HorizonDue},
                                          type : RecordTypes]] :
                      /\ \A r \in RecordIds : f[r].time \in {r, HorizonDue}
                      /\ \E r \in RecordIds : f[r].time = HorizonDue}
    /\ marked = {}
    /\ initPc = "new"
    /\ tasksList = <<>>
    /\ timers = {}
    /\ currentTimer = 0
    /\ currentTimerTimestamp = 0
    /\ handlers = {}
    /\ wakeups = <<>>
    /\ initCount = [o \in Objects |-> 0]
    /\ nTasks = 0
    /\ rejected = 0
    /\ errors = {}
    /\ inserted = <<>>
    /\ unwritten = {}

\* The far clock points come after initialize() has settled, so that the
\* rows due at HorizonDue are loaded more than MAX_TIMER_TIME ahead.
TickFar ==
    /\ initPc \in {"done", "failed"}
    /\ \E t \in FarTimePoints : t > now /\ now' = t
    /\ UNCHANGED <<records, marked, initPc, tasksList, timers, currentTimer,
                   currentTimerTimestamp, handlers, wakeups, initCount, nTasks,
                   rejected, errors, inserted, unwritten>>

NextHorizon == NextLoaded \/ TickFar

SpecHorizon == InitFar /\ [][NextHorizon]_vars

TypeOK ==
    /\ now \in TimePoints
    /\ initPc \in {"new", "loading", "done", "failed"}
    /\ currentTimerTimestamp = 0
    /\ Len(wakeups) <= MaxWakeups

(* ------------------------------ claims -------------------------------- *)
\* The working set: the tasks #tasksList holds.
WorkingSet == {tasksList[j] : j \in {x \in 1..Len(tasksList) : IsBaseTask(tasksList[x])}}
\* A timer callback is between its start and its end.
WakeInProgress == \E k \in 1..Len(wakeups) : wakeups[k].pc \in Running
\* The smallest dueAt of a non-empty set of tasks.
MinDueAt(S) == CHOOSE m \in {t.time : t \in S} : \A t \in S : m <= t.time
\* The step of #handleNewTask that inserts `task` (lines 49-51).
EnqueueStep(task) ==
    /\ task \in handlers
    /\ handlers' = handlers \ {task}
    /\ tasksList' = Append(tasksList, task)
\* The phases a callback has invoked on a task, in the order of the calls.
PhasesOf(w, task) ==
    LET idx == SelectSeq([j \in 1..Len(w.log) |-> j], LAMBDA j : w.log[j].task = task)
    IN  [j \in 1..Len(idx) |-> w.log[idx[j]].phase]
\* #runTasks has left its loop, or the callback is over.
ScanOver(w) == w.pc \in {"update", "rearm", "hookFailed", "updateFailed"}
ElementsOf(seq) == {seq[j] : j \in 1..Len(seq)}

\* C1: after initialize(), in runs where nothing has failed, whenever the
\* working set is non-empty and no wake-up is in progress, exactly one timer
\* is pending and the dueAt it was armed for is the minimum dueAt of the
\* working set.
C1_TimerTargetsMinimum ==
    (initPc = "done" /\ errors = {} /\ WorkingSet # {} /\ ~WakeInProgress)
        => /\ Cardinality(timers) = 1
           /\ \A t \in timers : t.target = MinDueAt(WorkingSet)

\* C2: when a wake-up's scan is over, every task that was due (dueAt < now)
\* in the working set when the wake-up started has had beforeRun, run and
\* afterRun invoked by it exactly once, in that order (the task whose own
\* hook failed apart), and no phase was invoked on a task with dueAt >= now.
C2_DueTasksRunOnce ==
    \A k \in 1..Len(wakeups) :
        LET w == wakeups[k] IN
        ScanOver(w) =>
            /\ \A task \in w.due :
                   \/ (w.pc = "hookFailed" /\ task = w.task)
                   \/ PhasesOf(w, task) = <<"beforeRun", "run", "afterRun">>
            /\ \A j \in 1..Len(w.log) : w.log[j].task.time < w.now

\* C3: when a hook of one due task has failed in a wake-up, every other task
\* that was due in that wake-up has been run through its three phases, the
\* failed task is out of the working set, and its id is in the wake-up's
\* completion write.
C3_FailureIsolation ==
    \A k \in 1..Len(wakeups) :
        LET w == wakeups[k] IN
        w.pc = "hookFailed" =>
            /\ \A task \in w.due \ {w.task} :
                   PhasesOf(w, task) = <<"beforeRun", "run", "afterRun">>
            /\ w.task \notin WorkingSet
            /\ w.task.id # 0 =>
                   \E j \in 1..Len(w.writes) : w.task.id \in ElementsOf(w.writes[j])

\* C4: a wake-up issues the completion update at most once and only after
\* its scan; once the wake-up is over the update has been issued exactly
\* when a task with an id was run, with exactly the ids of the tasks run.
C4_OneBatchedUpdate ==
    \A k \in 1..Len(wakeups) :
        LET w == wakeups[k] IN
        /\ Len(w.writes) <= 1
        /\ w.writes # <<>> => ScanOver(w)
        /\ w.pc \in {"rearm", "hookFailed", "updateFailed"} =>
               /\ (w.writes # <<>>) <=> (w.completed # <<>>)
               /\ \A j \in 1..Len(w.writes) : w.writes[j] = w.completed

\* C5: after initialize() has loaded every row and time has passed every
\* dueAt, all loaded tasks end up run and marked completed. Stated on the
\* final result: once the scheduler is at rest (no timer pending, no callback
\* and no handler in progress) nothing more is run, so by then every loaded
\* task has left the working set and every row is marked completed.
C5_RecoveryCompletes ==
    (/\ initPc = "done"
     /\ \A r \in RecordIds : records[r].time < now
     /\ timers = {} /\ handlers = {} /\ ~WakeInProgress)
        => /\ RecordIds \subseteq marked
           /\ \A task \in WorkingSet : task.id = 0

\* C6: an enqueue whose task is due later than the target of the armed timer
\* leaves the pending timer and its target unchanged.
C6_EnqueueKeepsEarlierTimer ==
    [][\A task \in handlers :
          (/\ EnqueueStep(task)
           /\ timers # {}
           /\ \A t \in timers : t.target < task.time)
              => UNCHANGED <<timers, currentTimer>>]_vars

\* C7: before the first wake-up, after each enqueue the timer's target is the
\* smallest dueAt enqueued or loaded so far, so no pending task waits for the
\* dueAt of a later-due task enqueued after it.
C7_TargetIsSmallestSoFar ==
    [][\A task \in handlers :
          (EnqueueStep(task) /\ initPc = "done" /\ errors = {} /\ wakeups = <<>>)
              => /\ timers' # {}
                 /\ \A t \in timers' : t.target = MinDueAt(WorkingSet')]_vars

\* C8: pushTask with a value that is not a Task changes neither the working
\* set, the timer, the handlers in progress nor any task's hook count, and
\* raises no error.
C8_NonTaskIsNoOp ==
    [][rejected' # rejected =>
          UNCHANGED <<tasksList, timers, currentTimer, currentTimerTimestamp,
                      handlers, wakeups, initCount, marked, errors>>]_vars
C8_Witness == rejected > 0 /\ timers # {} /\ WorkingSet # {}

\* C9: with a row the loader cannot resolve alongside valid rows, initialize()
\* completes without an error escaping, every valid row's task is in the
\* working set, a timer is armed, and the working set holds no non-Task.
C9_UnknownRecordSkipped ==
    (/\ initPc \in {"done", "failed"}
     /\ wakeups = <<>>
     /\ \E r \in RecordIds : ResolveThrows(r)
     /\ \E r \in RecordIds : ~ResolveThrows(r))
        => /\ initPc = "done"
           /\ "initialize" \notin errors
           /\ \A r \in RecordIds : ~ResolveThrows(r) => ResolveTask(r) \in WorkingSet
           /\ timers # {}
           /\ \A j \in 1..Len(tasksList) : IsBaseTask(tasksList[j])

\* C10: every task in the working set, loaded by initialize() or enqueued,
\* has had its initialize() hook invoked exactly once.
C10_InitializedOnce ==
    initPc = "done" => \A task \in WorkingSet : initCount[task.obj] = 1

\* The callback at position k starts or takes a step.
Acting(k) == k > Len(wakeups) \/ wakeups'[k] # wakeups[k]
\* The `now` that the callback at position k captured (line 87).
CapturedNow(k) == IF k > Len(wakeups) THEN now ELSE wakeups[k].now

\* C11: a task whose dueAt equals the `now` a wake-up captured is not run by
\* that wake-up: no step of the wake-up invokes a phase on it or takes it out
\* of the working set, and when the wake-up's callback ends a timer is pending
\* that fires for it (target at or before its dueAt).
C11_BoundaryTaskKept ==
    [][\A k \in 1..Len(wakeups') :
          Acting(k) =>
              \A task \in WorkingSet :
                  task.time = CapturedNow(k) =>
                      /\ task \in WorkingSet'
                      /\ \A j \in 1..Len(wakeups'[k].log) :
                             wakeups'[k].log[j].task # task
                      /\ wakeups'[k].pc \notin Running =>
                             \E t \in timers' : t.target <= task.time]_vars

\* C12: at most one timer is pending in every reachable state, whatever the
\* interleaving of enqueues, hook awaits and timer fires.
C12_AtMostOneTimer == Cardinality(timers) <= 1
\* Two enqueues have re-armed the timer while a wake-up is in progress.
C12_Witness ==
    /\ Cardinality(timers) = 1
    /\ WakeInProgress
    /\ nTasks = 2 /\ handlers = {}

\* C13: wake-ups are serialized: at most one timer callback is between its
\* start and its end in every reachable state.
C13_OneWakeupAtATime ==
    Cardinality({k \in 1..Len(wakeups) : wakeups[k].pc \in Running}) <= 1

\* C14: no task is lost: a task leaves the working set only in the step in
\* which a wake-up that has run it through beforeRun, run and afterRun
\* removes it.
C14_NoTaskLost ==
    [][\A task \in WorkingSet \ WorkingSet' :
          \E k \in 1..Len(wakeups) :
              /\ Acting(k)
              /\ wakeups[k].pc = "afterRun"
              /\ wakeups[k].task = task]_vars

\* C15: when the callback of a timer fire ends, however it ends, the timer is
\* re-armed: pending for the minimum dueAt of the working set when the
\* working set is non-empty, and no timer pending when it is empty.
C15_RearmAfterEveryFire ==
    [][\A k \in 1..Len(wakeups) :
          (wakeups[k].pc \in Running /\ wakeups'[k].pc \notin Running) =>
              IF WorkingSet' = {}
              THEN timers' = {}
              ELSE /\ Cardinality(timers') = 1
                   /\ \A t \in timers' : t.target = MinDueAt(WorkingSet')]_vars

\* Nothing is left to happen in the process: initialize() has settled, no
\* timer is pending, no handler and no callback is in progress.
AtRest ==
    /\ initPc \in {"done", "failed"}
    /\ timers = {} /\ handlers = {} /\ ~WakeInProgress

\* A callback in progress or failed has invoked a phase on the task.
Touched(task) ==
    \E k \in 1..Len(wakeups) :
        \E j \in 1..Len(wakeups[k].log) : wakeups[k].log[j].task = task

\* C16: every timeout is armed with delay min(max(0, candidate - now),
\* MAX_TIMER_TIME), so never negative and never above MAX_TIMER_TIME; a
\* task due more than MAX_TIMER_TIME ahead gets no phase from a wake-up
\* whose `now` its dueAt has not passed and stays in the working set across
\* such wake-ups; and it is run once its dueAt has passed, so after a
\* complete load the process is never at rest with it still waiting in the
\* working set without any of its phases invoked.
C16_ClampedDelay ==
    [][/\ \A t \in timers' \ timers :
              /\ t.fireAt - now = Min(Max(0, t.target - now), MAX_TIMER_TIME)
              /\ t.fireAt - now \in 0..MAX_TIMER_TIME
       /\ \A k \in 1..Len(wakeups') :
              \A task \in WorkingSet :
                  (/\ Acting(k)
                   /\ task.time > MAX_TIMER_TIME
                   /\ task.time >= CapturedNow(k)) =>
                      /\ task \in WorkingSet'
                      /\ \A j \in 1..Len(wakeups'[k].log) :
                             wakeups'[k].log[j].task # task
       /\ (AtRest' /\ initPc' = "done") =>
              \A task \in WorkingSet' :
                  (task.time > MAX_TIMER_TIME /\ task.time < now') => Touched(task)']_vars

\* C17: an id is marked completed only after a wake-up has invoked the three
\* phases of its task; and a row whose task was run and removed by a process
\* that stopped before the completion reached the store is loaded again by
\* the next initialize() and run again: once the new process is at rest with
\* the row's dueAt passed, initialize() has completed and the row's task is
\* not waiting in the working set without any of its phases invoked.
C17_UnwrittenRunAgain ==
    [][/\ \A id \in marked' \ marked :
              \E k \in 1..Len(wakeups) :
                  \A phase \in {"beforeRun", "run", "afterRun"} :
                      \E j \in 1..Len(wakeups[k].log) :
                          wakeups[k].log[j] = [task |-> ResolveTask(id), phase |-> phase]
       /\ \A id \in unwritten' :
              (AtRest' /\ records[id].time < now') =>
                  /\ initPc' = "done"
                  /\ ResolveTask(id) \in WorkingSet' => Touched(ResolveTask(id))']_vars

\* The position of a task object in the order of the pushes.
InsertedAt(obj) == CHOOSE j \in 1..Len(inserted) : inserted[j] = obj

\* C18: within one wake-up tasks are run in the order in which they were
\* inserted into the working set, whatever their dueAt: when the wake-up
\* starts beforeRun of a task B, every task A whose beforeRun it started
\* earlier was inserted before B and has had its run and afterRun.
C18_InsertionOrder ==
    \A k \in 1..Len(wakeups) :
        \A q \in 1..Len(wakeups[k].log) : \A p \in 1..(q - 1) :
            (/\ wakeups[k].log[q].phase = "beforeRun"
             /\ wakeups[k].log[p].phase = "beforeRun") =>
                /\ InsertedAt(wakeups[k].log[p].task.obj)
                       < InsertedAt(wakeups[k].log[q].task.obj)
                /\ \A phase \in {"run", "afterRun"} :
                       \E j \in (p + 1)..(q - 1) :
                           wakeups[k].log[j] =
                               [task |-> wakeups[k].log[p].task, phase |-> phase]
\* A wake-up has run a task and then started one that was due earlier.
C18_Witness ==
    \E k \in 1..Len(wakeups) :
        LET w == wakeups[k] IN
        \E q \in 1..Len(w.log) : \E p \in 1..(q - 1) :
            w.log[p].task.time > w.log[q].task.time

\* The calls of the run hook of `task` that the callbacks in progress have
\* made: <<k, j>> is entry j of the log of the callback at position k.
RunCalls(task) ==
    UNION {{<<k, j>> : j \in {x \in 1..Len(wakeups[k].log) :
                                 /\ wakeups[k].log[x].task = task
                                 /\ wakeups[k].log[x].phase = "run"}} :
           k \in 1..Len(wakeups)}

\* C19: without a restart no task has its run hook invoked a second time:
\* over all the callbacks in progress, a task's run hook was called at most
\* once.
C19_RunAtMostOnce ==
    \A k \in 1..Len(wakeups) :
        \A j \in 1..Len(wakeups[k].log) :
            Cardinality(RunCalls(wakeups[k].log[j].task)) <= 1

====
